---- MODULE Spec2Model ----
(***************************************************************************)
(* A model of the single-file-component Vite plugin.  The repository holds *)
(* two editions of the plugin: src/vite-plugin-sfc.js (scripts are         *)
(* concatenated unwrapped, development output is not minified) and         *)
(* src/unnamed/part_001 (scripts are wrapped per component, every output   *)
(* is minified).  The variable `variant` says which edition runs; it is    *)
(* chosen at Init and never changes.                                       *)
(*                                                                         *)
(* Text is a sequence of tokens; a token is a string standing for a run of *)
(* characters that no operation of the plugin splits.  Whitespace          *)
(* characters are tokens of their own.                                     *)
(***************************************************************************)
EXTENDS Naturals, Sequences, FiniteSets

\* ------------------------------------------------------------------ bounds
\* Hook events that scan or write (buildStart, writeBundle, configureServer,
\* matching watcher events).
MaxHooks == 3
\* Changes made to the file system by the environment.
MaxFsOps == 1
\* Awaited minifications in flight at once.
MaxPending == 2
\* Characters of a template markup.
MaxMarkup == 4

\* ----------------------------------------------------------- text helpers
WS == {" ", "\n", "\t"}

\* Number of leading whitespace tokens of s.
RECURSIVE LeadingWs(_)
LeadingWs(s) ==
    IF s = <<>> \/ Head(s) \notin WS THEN 0 ELSE 1 + LeadingWs(Tail(s))

\* String.prototype.replace(/\s\s/g, ' '), the pattern without its `+`,
\* against which the collapsing of whitespace is tested.
RECURSIVE CollapsePairs(_)
CollapsePairs(s) ==
    IF s = <<>> THEN <<>>
    ELSE IF LeadingWs(s) >= 2 THEN <<" ">> \o CollapsePairs(SubSeq(s, 3, Len(s)))
    ELSE <<Head(s)>> \o CollapsePairs(Tail(s))

\* String.prototype.replace(/\s\s+/g, ' '): every maximal run of two or more
\* whitespace characters becomes one space.
RECURSIVE Collapse(_)
Collapse(s) ==
    IF s = <<>> THEN <<>>
    ELSE LET n == LeadingWs(s) IN
         IF n >= 2 THEN <<" ">> \o Collapse(SubSeq(s, n + 1, Len(s)))
         ELSE <<Head(s)>> \o Collapse(Tail(s))

RECURSIVE TrimStart(_)
TrimStart(s) ==
    IF s # <<>> /\ Head(s) \in WS THEN TrimStart(Tail(s)) ELSE s

RECURSIVE TrimEnd(_)
TrimEnd(s) ==
    IF s # <<>> /\ s[Len(s)] \in WS THEN TrimEnd(SubSeq(s, 1, Len(s) - 1)) ELSE s

\* String.prototype.trim()
Trim(s) == TrimEnd(TrimStart(s))

\* ------------------------------------------------------- component sources
\* What node-html-parser finds in a component file: for each of the three
\* elements whether it is there, and its inner text.
NoSection == [present |-> FALSE, text |-> <<>>]
Section(t) == [present |-> TRUE, text |-> t]

\* A script body terser rejects (a syntax error).
BadJs == "("

FullSource ==
    [template |-> Section(<<"<p>", " ", "\n", "hi", " ", "</p>">>),
     script   |-> Section(<<"\n", "go()", "\n">>),
     style    |-> Section(<<"p{color:red}">>)]

StyleOnlySource ==
    [template |-> NoSection, script |-> NoSection, style |-> Section(<<"b{}">>)]

BlankScriptSource ==
    [template |-> Section(<<"<i>", "</i>">>),
     script   |-> Section(<<" ", "\n">>),
     style    |-> NoSection]

BadScriptSource ==
    [template |-> NoSection, script |-> Section(<<BadJs>>), style |-> Section(<<"u{}">>)]

SourceTexts == {FullSource, StyleOnlySource, BlankScriptSource, BadScriptSource}

\* Directory entries: a base name and an extension.
Card == [name |-> "card.html", base |-> "card", ext |-> "html"]
Counter == [name |-> "counter.html", base |-> "counter", ext |-> "html"]
Notes == [name |-> "notes.txt", base |-> "notes", ext |-> "txt"]
Entries == {Card, Counter, Notes}

\* f.endsWith('.html')
EndsWithHtml(f) == f.ext = "html"

\* path.basename(filepath, '.html')
Basename(f) == IF f.ext = "html" THEN f.base ELSE f.name

\* Array.prototype.filter with f.endsWith('.html')
RECURSIVE FilterHtml(_)
FilterHtml(fs) ==
    IF fs = <<>> THEN <<>>
    ELSE IF EndsWithHtml(Head(fs)) THEN <<Head(fs)>> \o FilterHtml(Tail(fs))
         ELSE FilterHtml(Tail(fs))

\* ------------------------------------------------------------- extraction
EmptyData == [script |-> <<>>, style |-> <<>>, template |-> <<>>]

\* The character that delimits a JavaScript template literal.
Backtick == "<backtick>"

\* The template-injection statement of one component.
TemplateFragment(filename, innerHTML) ==
    <<"document.querySelectorAll(\"", filename, "\").forEach(function(e){",
      "e.innerHTML = ", Backtick>> \o Collapse(innerHTML) \o <<Backtick, "})\n">>

\* The scoped script statement of one component (src/unnamed/part_001).
ScriptFragment(filename, scriptContent) ==
    <<"document.querySelectorAll(\"", filename, "\").forEach(function(",
      filename, "){">> \o scriptContent \o <<"})\n">>

\* What extractTags adds to data.script for a parsed file.
ScriptPart(v, filename, root) ==
    IF ~root.script.present THEN <<>>
    ELSE IF v = "sfc" THEN root.script.text \o <<"\n">>
    ELSE LET scriptContent == Trim(root.script.text) IN
         IF scriptContent # <<>> THEN ScriptFragment(filename, scriptContent)
         ELSE <<>>

\* extractTags(filepath, data) for a file that can be read: the new data.
extractTags(v, f, root, d) ==
    LET filename == Basename(f) IN
    [template |-> d.template \o
                  (IF root.template.present
                   THEN TemplateFragment(filename, root.template.text)
                   ELSE <<>>),
     script   |-> d.script \o ScriptPart(v, filename, root),
     style    |-> d.style \o
                  (IF root.style.present THEN root.style.text ELSE <<>>)]

\* files.forEach(file => extractTags(...)): readFileSync throws on an
\* unreadable file, which ends the loop with what was accumulated so far.
RECURSIVE ExtractAll(_, _, _, _, _)
ExtractAll(v, files, cont, unr, d) ==
    IF files = <<>> THEN [data |-> d, threw |-> FALSE]
    ELSE IF Head(files) \in unr THEN [data |-> d, threw |-> TRUE]
    ELSE ExtractAll(v, Tail(files), cont, unr,
                    extractTags(v, Head(files), cont[Head(files)], d))

\* fs.readdirSync(componentsDir).filter(...) followed by the forEach.
Scan(v, ls, cont, unr, d) == ExtractAll(v, FilterHtml(ls), cont, unr, d)

\* ----------------------------------------------------------------- writer
AssetDirs == {"public/assets", "dist/assets"}
NoFile == [min |-> "absent", text |-> <<>>]
\* new CleanCSS().minify(style).styles
CssMin(style) == [min |-> "cleancss", text |-> style]
\* (await minify(combined)).code
Terser(combined) == [min |-> "terser", text |-> combined]
Verbatim(text) == [min |-> "none", text |-> text]
\* terser rejects a script with a syntax error
TerserRejects(combined) == \E i \in 1..Len(combined) : combined[i] = BadJs

\* The other order of concatenation, against which the ordering of the
\* combined script is tested.
CombinedScriptFirst(d) == d.script \o <<" ">> \o d.template

\* data.template + (one space) + data.script
Combined(d) == d.template \o <<" ">> \o d.script

\* Whether a write minifies the script: writeBundle always does;
\* writeDevFiles does in part_001, and in vite-plugin-sfc.js when !isDev.
MinifiesJs(v, fn, dev) == fn = "writeBundle" \/ v = "part001" \/ ~dev

\* A writer without the `if (data.style)` guard, against which the handling
\* of an empty style aggregate is tested.
WriteSyncCssAlways(v, fn, dir, d, dev, dk, broken) ==
    LET dk1 == IF ~broken THEN [dk EXCEPT ![dir].css = CssMin(d.style)] ELSE dk
        combined == Combined(d)
    IN  IF broken
        THEN [disk |-> dk, outcome |-> "rejected", combined |-> combined]
        ELSE IF MinifiesJs(v, fn, dev)
        THEN [disk |-> dk1, outcome |-> "awaiting", combined |-> combined]
        ELSE [disk |-> [dk1 EXCEPT ![dir].js = Verbatim(combined)],
              outcome |-> "written", combined |-> combined]

\* The synchronous part of writeBundle / writeDevFiles, up to the await (or
\* to the end when nothing is awaited): the disk afterwards and how it ended.
WriteSync(v, fn, dir, d, dev, dk, broken) ==
    LET cssWanted == d.style # <<>>
        dk1 == IF cssWanted /\ ~broken
               THEN [dk EXCEPT ![dir].css = CssMin(d.style)] ELSE dk
        combined == Combined(d)
    IN  IF cssWanted /\ broken
        THEN [disk |-> dk, outcome |-> "rejected", combined |-> combined]
        ELSE IF MinifiesJs(v, fn, dev)
        THEN [disk |-> dk1, outcome |-> "awaiting", combined |-> combined]
        ELSE IF broken
        THEN [disk |-> dk1, outcome |-> "rejected", combined |-> combined]
        ELSE [disk |-> [dk1 EXCEPT ![dir].js = Verbatim(combined)],
              outcome |-> "written", combined |-> combined]

\* ------------------------------------------------------------------- state
VARIABLES
    variant,      \* "sfc" (src/vite-plugin-sfc.js) or "part001" (src/unnamed/part_001)
    compDir,      \* whether src/components exists
    listing,      \* its directory listing, in listing order
    content,      \* what each entry holds
    unreadable,   \* entries whose readFileSync throws
    fsBroken,     \* whether mkdirSync and writeFileSync throw
    srcIndex,     \* whether src/index.html exists (it does, in this project)
    dirs,         \* assets directories that exist
    disk,         \* the output artifacts, per assets directory
    publicIndex,  \* whether public/index.html holds the copy of src/index.html
    data,         \* the accumulator of the plugin instance
    isDev,        \* the mode flag of src/vite-plugin-sfc.js
    served,       \* configureServer has been called
    watching,     \* the watcher 'change' handler is registered
    buildOk,      \* the latest buildStart returned normally
    pending,      \* writes waiting on the script minifier
    nextId,       \* number of the next write invocation
    hooks,        \* hook events so far, ignored watcher events aside
    fsops,        \* file-system changes so far
    \* history, for stating properties
    scan,         \* the latest scan of the component directory
    writes,       \* the write invocations, in order
    jsDone,       \* write invocations whose script artifact reached the disk
    writeFailed,  \* write invocations that were rejected
    logged,       \* write invocations whose rejection console.error reported
    reloaded,     \* write invocations a 'full-reload' was sent after
    escaped,      \* hooks out of which an exception propagated
    last          \* what the latest step did

envVars == <<compDir, listing, content, unreadable, fsBroken, srcIndex>>
progVars == <<dirs, disk, publicIndex, data, isDev, served, watching, buildOk,
              pending, nextId>>
histVars == <<scan, writes, jsDone, writeFailed, logged, reloaded, escaped>>
vars == <<variant, envVars, progVars, hooks, fsops, histVars, last>>

Variants == {"sfc", "part001"}

\* The index.html next to the components directory.
Index == [name |-> "index.html", base |-> "index", ext |-> "html"]

\* Paths the watcher reports: the directories above the file, and the file.
ChangePaths ==
    {[segs |-> <<"src", "components">>, file |-> Card],
     [segs |-> <<"src", "components">>, file |-> Notes],
     [segs |-> <<"src">>, file |-> Index]}

\* The test without its first half, against which the filtering of watcher
\* events is tested.
MatchesHtmlOnly(path) == EndsWithHtml(path.file)

\* file.includes('/components/') && file.endsWith('.html')
Matches(path) ==
    /\ \E i \in 1..Len(path.segs) : path.segs[i] = "components"
    /\ EndsWithHtml(path.file)

\* step: what ran; id: the write invocation it made or finished (0: none);
\* wrote: the output writer was invoked; threw: it ended in an exception or a
\* rejection; diskSame: no artifact changed; js: the script artifact it wrote.
Step(step, id, wrote, threw, diskSame, js) ==
    [step |-> step, id |-> id, wrote |-> wrote, threw |-> threw,
     diskSame |-> diskSame, js |-> js]

Init ==
    /\ variant \in Variants
    /\ compDir = TRUE
    /\ listing = <<Card, Counter>>
    /\ content = [f \in Entries |->
                    IF f = Counter THEN StyleOnlySource ELSE FullSource]
    /\ unreadable = {}
    /\ fsBroken = FALSE
    /\ srcIndex = TRUE
    /\ dirs = {}
    /\ disk = [d \in AssetDirs |-> [js |-> NoFile, css |-> NoFile]]
    /\ publicIndex = FALSE
    /\ data = EmptyData
    /\ isDev = TRUE
    /\ served = FALSE
    /\ watching = FALSE
    /\ buildOk = FALSE
    /\ pending = <<>>
    /\ nextId = 1
    /\ hooks = 0
    /\ fsops = 0
    /\ scan = [epoch |-> 0, fresh |-> EmptyData, tainted |-> FALSE]
    /\ writes = <<>>
    /\ jsDone = {}
    /\ writeFailed = {}
    /\ logged = {}
    /\ reloaded = {}
    /\ escaped = {}
    /\ last = Step("init", 0, FALSE, FALSE, TRUE, NoFile)

\* What a reset followed by a scan that reads every file would accumulate.
Fresh == Scan(variant, listing, content, {}, EmptyData).data

\* The directory as a scan started now finds it.
Scanned(tainted) ==
    [epoch |-> fsops, fresh |-> IF compDir THEN Fresh ELSE EmptyData,
     tainted |-> tainted]

\* The record of one invocation of the output writer.
WriteRecord(fn, hook, dir, d, dev, w, sc) ==
    [id |-> nextId, fn |-> fn, hook |-> hook, dir |-> dir,
     dev |-> dev, data |-> d, combined |-> w.combined,
     outcome |-> w.outcome,
     epoch |-> sc.epoch, fresh |-> sc.fresh, tainted |-> sc.tainted,
     cssChanged |-> w.disk[dir].css # disk[dir].css,
     inFlight |-> Len(pending)]

\* The entry a write leaves in `pending` while it awaits the minifier.
Awaiting(fn, dir, w, cssChanged) ==
    [id |-> nextId, fn |-> fn, dir |-> dir, combined |-> w.combined,
     cssChanged |-> cssChanged]

\* ------------------------------------------------------------------ hooks
\* buildStart(): src/vite-plugin-sfc.js 33-47, src/unnamed/part_001 30-43.
buildStart ==
    /\ hooks < MaxHooks
    /\ hooks' = hooks + 1
    /\ isDev' = IF variant = "sfc" THEN FALSE ELSE isDev
    /\ IF ~compDir
       THEN /\ data' = data
            /\ buildOk' = TRUE
            /\ escaped' = escaped
            /\ scan' = Scanned(scan.tainted)
            /\ last' = Step("buildStart", 0, FALSE, FALSE, TRUE, NoFile)
       ELSE LET r == Scan(variant, listing, content, unreadable, data) IN
            /\ data' = r.data
            /\ buildOk' = ~r.threw
            /\ escaped' = IF r.threw THEN escaped \cup {"buildStart"} ELSE escaped
            /\ scan' = Scanned(scan.tainted \/ (r.threw /\ r.data # data))
            /\ last' = Step("buildStart", 0, FALSE, r.threw, TRUE, NoFile)
    /\ UNCHANGED <<variant, envVars, dirs, disk, publicIndex, served, watching,
                   pending, nextId, fsops, writes, jsDone, writeFailed, logged,
                   reloaded>>

\* writeBundle(options): src/vite-plugin-sfc.js 50-73, part_001 46-70.  The
\* host calls it after a buildStart that returned normally.  A rejection of
\* the promise it returns goes to the host.
writeBundle ==
    /\ hooks < MaxHooks
    /\ buildOk
    /\ Len(pending) < MaxPending
    /\ hooks' = hooks + 1
    /\ LET dir == "dist/assets"
           mkdirThrows == dir \notin dirs /\ fsBroken
           w == IF mkdirThrows
                THEN [disk |-> disk, outcome |-> "rejected",
                      combined |-> Combined(data)]
                ELSE WriteSync(variant, "writeBundle", dir, data, isDev, disk,
                               fsBroken)
           rec == WriteRecord("writeBundle", "writeBundle", dir, data, isDev, w,
                              scan)
       IN  /\ dirs' = IF mkdirThrows THEN dirs ELSE dirs \cup {dir}
           /\ disk' = w.disk
           /\ writes' = Append(writes, rec)
           /\ pending' = IF w.outcome = "awaiting"
                         THEN Append(pending, Awaiting("writeBundle", dir, w,
                                                       rec.cssChanged))
                         ELSE pending
           /\ writeFailed' = IF w.outcome = "rejected"
                             THEN writeFailed \cup {nextId} ELSE writeFailed
           /\ escaped' = IF w.outcome = "rejected"
                         THEN escaped \cup {"writeBundle"} ELSE escaped
           /\ last' = Step("writeBundle", nextId, TRUE, w.outcome = "rejected",
                           w.disk = disk, NoFile)
    /\ nextId' = nextId + 1
    /\ UNCHANGED <<variant, envVars, publicIndex, data, isDev, served, watching,
                   buildOk, fsops, scan, jsDone, logged, reloaded>>

\* writeDevFiles(assetsDir, data, isDev).catch(console.error), as both
\* callers invoke it: src/vite-plugin-sfc.js 108-110, 128-130, 178-195;
\* part_001 104-106, 124-126, 186-199.
writeDevFiles(hook, d) ==
    LET dir == "public/assets"
        w == WriteSync(variant, "writeDevFiles", dir, d, isDev', disk, fsBroken)
        rec == WriteRecord("writeDevFiles", hook, dir, d, isDev', w, scan')
    IN  /\ disk' = w.disk
        /\ writes' = Append(writes, rec)
        /\ pending' = IF w.outcome = "awaiting"
                      THEN Append(pending, Awaiting("writeDevFiles", dir, w,
                                                    rec.cssChanged))
                      ELSE pending
        /\ jsDone' = IF w.outcome = "written"
                     THEN jsDone \cup {nextId} ELSE jsDone
        /\ writeFailed' = IF w.outcome = "rejected"
                          THEN writeFailed \cup {nextId} ELSE writeFailed
        /\ logged' = IF w.outcome = "rejected"
                     THEN logged \cup {nextId} ELSE logged
        /\ nextId' = nextId + 1
        /\ last' = Step(hook, nextId, TRUE, FALSE, w.disk = disk,
                        IF w.outcome = "written" THEN w.disk[dir].js ELSE NoFile)

\* A hook that throws before it reaches the output writer.
Throws(hook, d, sc) ==
    /\ data' = d
    /\ escaped' = escaped \cup {hook}
    /\ scan' = sc
    /\ last' = Step(hook, 0, FALSE, TRUE, TRUE, NoFile)
    /\ UNCHANGED <<disk, writes, pending, jsDone, writeFailed, logged, nextId>>

\* configureServer(server): src/vite-plugin-sfc.js 76-139, part_001 73-135.
\* The host calls it once for a plugin instance.
configureServer ==
    /\ hooks < MaxHooks
    /\ ~served
    /\ Len(pending) < MaxPending
    /\ hooks' = hooks + 1
    /\ served' = TRUE
    /\ isDev' = IF variant = "sfc" THEN TRUE ELSE isDev
    /\ LET dir == "public/assets"
           mkdirThrows == dir \notin dirs /\ fsBroken
           r == IF compDir
                THEN Scan(variant, listing, content, unreadable, data)
                ELSE [data |-> data, threw |-> FALSE]
           tainted == scan.tainted \/ (r.threw /\ r.data # data)
           copyThrows == srcIndex /\ fsBroken
       IN  IF mkdirThrows
           THEN /\ Throws("configureServer", data, scan)
                /\ UNCHANGED <<dirs, publicIndex, watching>>
           ELSE IF r.threw \/ copyThrows
           THEN /\ Throws("configureServer", r.data, Scanned(tainted))
                /\ dirs' = dirs \cup {dir}
                /\ UNCHANGED <<publicIndex, watching>>
           ELSE /\ dirs' = dirs \cup {dir}
                /\ data' = r.data
                /\ publicIndex' = (publicIndex \/ srcIndex)
                /\ scan' = Scanned(tainted)
                /\ writeDevFiles("configureServer", r.data)
                /\ watching' = compDir
                /\ escaped' = escaped
    /\ UNCHANGED <<variant, envVars, buildOk, fsops, reloaded>>

\* server.watcher.on('change', file => ...): src/vite-plugin-sfc.js 115-137,
\* part_001 111-133.
watcherChange(file) ==
    /\ hooks < MaxHooks
    /\ watching
    /\ Len(pending) < MaxPending
    /\ isDev' = isDev
    /\ hooks' = IF Matches(file) THEN hooks + 1 ELSE hooks
    /\ IF ~Matches(file)
       THEN /\ last' = Step("ignored", 0, FALSE, FALSE, TRUE, NoFile)
            /\ UNCHANGED <<data, disk, pending, nextId, histVars>>
       ELSE IF ~compDir
       THEN /\ Throws("change", EmptyData, Scanned(TRUE))
            /\ reloaded' = reloaded
       ELSE LET r == Scan(variant, listing, content, unreadable, EmptyData) IN
            IF r.threw
            THEN /\ Throws("change", r.data, Scanned(TRUE))
                 /\ reloaded' = reloaded
            ELSE /\ data' = r.data
                 /\ scan' = Scanned(FALSE)
                 /\ writeDevFiles("change", r.data)
                 /\ reloaded' = reloaded \cup {nextId}
                 /\ escaped' = escaped
    /\ UNCHANGED <<variant, envVars, dirs, publicIndex, served, watching,
                   buildOk, fsops>>

\* A continuation that builds the combined script only after the await, from
\* the shared accumulator as it then is; against it the snapshot a write
\* takes is tested.
minifyDoneLate(i) ==
    /\ i \in 1..Len(pending)
    /\ LET p == pending[i]
           combined == Combined(data)
           rejected == TerserRejects(combined) \/ fsBroken
       IN  /\ pending' = SubSeq(pending, 1, i - 1) \o
                         SubSeq(pending, i + 1, Len(pending))
           /\ disk' = IF rejected THEN disk
                      ELSE [disk EXCEPT ![p.dir].js = Terser(combined)]
           /\ jsDone' = IF rejected THEN jsDone ELSE jsDone \cup {p.id}
           /\ writeFailed' = IF rejected THEN writeFailed \cup {p.id}
                             ELSE writeFailed
           /\ logged' = IF rejected /\ p.fn = "writeDevFiles"
                        THEN logged \cup {p.id} ELSE logged
           /\ escaped' = IF rejected /\ p.fn = "writeBundle"
                         THEN escaped \cup {"writeBundle"} ELSE escaped
           /\ last' = Step(IF TerserRejects(combined) THEN "minifyFailed"
                           ELSE "minifyDone",
                           p.id, FALSE, rejected, rejected,
                           IF rejected THEN NoFile ELSE Terser(combined))
    /\ UNCHANGED <<variant, envVars, dirs, publicIndex, data, isDev, served,
                   watching, buildOk, nextId, hooks, fsops, scan, writes,
                   reloaded>>

\* The continuation of a write after `await minify(combined)`:
\* src/vite-plugin-sfc.js 69-72, 190-193; part_001 65-69, 195-198.
minifyDone(i) ==
    /\ i \in 1..Len(pending)
    /\ LET p == pending[i]
           rejected == TerserRejects(p.combined) \/ fsBroken
       IN  /\ pending' = SubSeq(pending, 1, i - 1) \o
                         SubSeq(pending, i + 1, Len(pending))
           /\ disk' = IF rejected THEN disk
                      ELSE [disk EXCEPT ![p.dir].js = Terser(p.combined)]
           /\ jsDone' = IF rejected THEN jsDone ELSE jsDone \cup {p.id}
           /\ writeFailed' = IF rejected THEN writeFailed \cup {p.id}
                             ELSE writeFailed
           /\ logged' = IF rejected /\ p.fn = "writeDevFiles"
                        THEN logged \cup {p.id} ELSE logged
           /\ escaped' = IF rejected /\ p.fn = "writeBundle"
                         THEN escaped \cup {"writeBundle"} ELSE escaped
           /\ last' = Step(IF TerserRejects(p.combined) THEN "minifyFailed"
                           ELSE "minifyDone",
                           p.id, FALSE, rejected, rejected,
                           IF rejected THEN NoFile ELSE Terser(p.combined))
    /\ UNCHANGED <<variant, envVars, dirs, publicIndex, data, isDev, served,
                   watching, buildOk, nextId, hooks, fsops, scan, writes,
                   reloaded>>

\* ------------------------------------------------------------ environment
FsStep ==
    /\ fsops < MaxFsOps
    /\ fsops' = fsops + 1
    /\ last' = Step("fs", 0, FALSE, FALSE, TRUE, NoFile)
    /\ UNCHANGED <<variant, progVars, hooks, histVars>>

\* A file of the component directory is deleted.
DeleteFile(i) ==
    /\ FsStep
    /\ i \in 1..Len(listing)
    /\ listing' = SubSeq(listing, 1, i - 1) \o SubSeq(listing, i + 1, Len(listing))
    /\ unreadable' = unreadable \ {listing[i]}
    /\ UNCHANGED <<compDir, content, fsBroken, srcIndex>>

\* Every file of the component directory is deleted at once.
EmptyDir ==
    /\ FsStep
    /\ compDir
    /\ listing # <<>>
    /\ listing' = <<>>
    /\ unreadable' = {}
    /\ UNCHANGED <<compDir, content, fsBroken, srcIndex>>

\* A file is created in the component directory; the listing shows it last.
AddFile(f) ==
    /\ FsStep
    /\ compDir
    /\ \A i \in 1..Len(listing) : listing[i] # f
    /\ listing' = Append(listing, f)
    /\ UNCHANGED <<compDir, content, unreadable, fsBroken, srcIndex>>

\* The saves the environment makes: card.html with each other content,
\* counter.html with a template and a script added.
Edits ==
    {<<Card, StyleOnlySource>>, <<Card, BlankScriptSource>>,
     <<Card, BadScriptSource>>, <<Counter, FullSource>>}

\* A component file is saved with other content.
EditFile(f, t) ==
    /\ FsStep
    /\ \E i \in 1..Len(listing) : listing[i] = f
    /\ content[f] # t
    /\ content' = [content EXCEPT ![f] = t]
    /\ UNCHANGED <<compDir, listing, unreadable, fsBroken, srcIndex>>

\* A component file stops or starts being readable.
ToggleReadable(f) ==
    /\ FsStep
    /\ \E i \in 1..Len(listing) : listing[i] = f
    /\ unreadable' = IF f \in unreadable THEN unreadable \ {f}
                     ELSE unreadable \cup {f}
    /\ UNCHANGED <<compDir, listing, content, fsBroken, srcIndex>>

\* Writes start or stop failing (a full or read-only disk).
ToggleFsBroken ==
    /\ FsStep
    /\ fsBroken' = ~fsBroken
    /\ UNCHANGED <<compDir, listing, content, unreadable, srcIndex>>

\* The component directory is removed with all it holds, or created empty.
ToggleCompDir ==
    /\ FsStep
    /\ compDir' = ~compDir
    /\ listing' = <<>>
    /\ unreadable' = {}
    /\ UNCHANGED <<content, fsBroken, srcIndex>>

Next ==
    \/ buildStart
    \/ writeBundle
    \/ configureServer
    \/ \E file \in ChangePaths : watcherChange(file)
    \/ \E i \in 1..MaxPending : minifyDone(i)
    \/ \E i \in 1..Cardinality(Entries) : DeleteFile(i)
    \/ EmptyDir
    \/ \E f \in Entries : AddFile(f)
    \/ \E e \in Edits : EditFile(e[1], e[2])
    \/ \E f \in Entries \ {Notes} : ToggleReadable(f)
    \/ ToggleFsBroken
    \/ ToggleCompDir

Spec == Init /\ [][Next]_vars

\* ------------------------------------------------------------- properties
\* The artifacts a write invocation is to produce when nothing fails.
Intended(w) ==
    [js  |-> IF MinifiesJs(variant, w.fn, w.dev) THEN Terser(w.combined)
             ELSE Verbatim(w.combined),
     css |-> IF w.data.style # <<>> THEN CssMin(w.data.style) ELSE NoFile]

\* C1: whenever the output writer is invoked, each accumulator field is the
\* concatenation, in listing order, of one fragment per component file that
\* was in the component directory at the rebuild's scan: nothing twice,
\* nothing of a deleted file.
C1_AccumulatorMatchesDirectory ==
    \A i \in 1..Len(writes) : writes[i].data = writes[i].fresh

\* C2: a 'full-reload' is sent for a file-change event only once the script
\* artifact of that event's rebuild is on disk.
C2_ReloadFollowsWrite ==
    \A id \in reloaded : id \in jsDone

\* C3: in development mode no failure of a rebuild propagates out of
\* configureServer or out of the watcher's 'change' callback.
C3_DevFailuresSwallowed ==
    escaped \cap {"configureServer", "change"} = {}

\* C4: two consecutive rebuilds over an unchanged component directory are to
\* produce byte-identical script and style artifacts.
C4_RebuildIdempotent ==
    \A i \in 1..Len(writes) - 1 :
        writes[i].epoch = writes[i + 1].epoch
            => Intended(writes[i]) = Intended(writes[i + 1])

\* C5: in src/vite-plugin-sfc.js every script artifact writeDevFiles writes
\* is the verbatim template + ' ' + script, and every one writeBundle writes
\* is the minifier's output.
C5_DevVerbatimProdMinified ==
    (variant = "sfc" /\ last.js # NoFile) =>
        LET w == writes[last.id] IN
        /\ w.fn = "writeDevFiles" => last.js = Verbatim(w.combined)
        /\ w.fn = "writeBundle" => last.js = Terser(w.combined)

\* The statement C6 describes: select all elements by the component's tag
\* name and run the body per element, the element bound to that name.
ScopedStatement(name, body) ==
    <<"document.querySelectorAll(\"", name, "\").forEach(function(", name,
      "){">> \o body \o <<"})\n">>

RECURSIVE ScopedScripts(_)
ScopedScripts(files) ==
    IF files = <<>> THEN <<>>
    ELSE LET f == Head(files)
             body == Trim(content[f].script.text)
         IN  (IF content[f].script.present /\ body # <<>>
              THEN ScopedStatement(f.base, body) ELSE <<>>)
             \o ScopedScripts(Tail(files))

\* C6: after a rebuild the script aggregate holds exactly one scoped
\* statement per component whose script is non-empty after trimming, and
\* nothing for a component without one.
C6_ScriptsAreScoped ==
    (last.step = "change" /\ last.wrote) =>
        data.script = ScopedScripts(FilterHtml(listing))

\* C7: a write whose script minification fails has changed neither
\* app.min.js nor app.min.css.
C7_MinifyFailureKeepsArtifacts ==
    last.step = "minifyFailed" =>
        last.diskSame /\ ~writes[last.id].cssChanged

\* C8: no 'full-reload' is sent for a file-change event whose write fails.
C8_ReloadOnlyAfterSuccess ==
    \A id \in reloaded : id \notin writeFailed

\* The latest invocation of writeDevFiles (0: none).
LastDevWrite ==
    LET S == {i \in 1..Len(writes) : writes[i].fn = "writeDevFiles"} IN
    IF S = {} THEN 0 ELSE CHOOSE i \in S : \A j \in S : j <= i

\* C9: rebuilds run one after the other: none is triggered while a write of
\* an earlier one is pending, and once all writes have finished both
\* artifacts hold the output of the last-triggered rebuild.
C9_RebuildsSequential ==
    /\ \A i \in 1..Len(writes) :
           writes[i].hook = "change" => writes[i].inFlight = 0
    /\ (/\ pending = <<>>
        /\ LastDevWrite # 0
        /\ \A i \in 1..Len(writes) :
               writes[i].fn = "writeDevFiles" => writes[i].id \in jsDone)
       => LET w == writes[LastDevWrite] IN
          /\ disk[w.dir].js = Intended(w).js
          /\ w.data.style # <<>> => disk[w.dir].css = Intended(w).css

\* C10: a rebuild in which reading a component file fails invokes no write
\* and changes no artifact, and no write is ever made from an accumulator
\* left partially filled.
C10_ReadFailureAbortsRebuild ==
    /\ (last.threw /\ last.step \in {"buildStart", "configureServer", "change"})
           => ~last.wrote /\ last.diskSame
    /\ \A i \in 1..Len(writes) : ~writes[i].tainted

\* C11: a buildStart or configureServer that finds the component directory
\* missing raises no error and leaves all three accumulator fields empty,
\* also when an earlier trigger had populated them.
C11_MissingDirectoryEmptiesAccumulator ==
    (last.step \in {"buildStart", "configureServer"} /\ ~compDir) =>
        /\ fsBroken \/ ~last.threw
        /\ data = EmptyData

\* frag occurs in s from position p on.
OccursAt(frag, s, p) ==
    /\ p + Len(frag) - 1 <= Len(s)
    /\ SubSeq(s, p, p + Len(frag) - 1) = frag

HtmlEntries == {f \in Entries : EndsWithHtml(f)}

\* The template-injection statements and the script fragments extractTags
\* can generate from the component sources.
TemplateFragments ==
    {TemplateFragment(Basename(f), t.template.text) :
        f \in HtmlEntries, t \in {x \in SourceTexts : x.template.present}}
ScriptFragments ==
    {ScriptPart(variant, Basename(f), t) :
        f \in HtmlEntries, t \in SourceTexts} \ {<<>>}

\* Where the template-injection statements in s end, where the script
\* fragments in s start.
TemplateEnds(s) ==
    {e \in 1..Len(s) : \E tf \in TemplateFragments :
        e >= Len(tf) /\ OccursAt(tf, s, e - Len(tf) + 1)}
ScriptStarts(s) ==
    {q \in 1..Len(s) : \E sf \in ScriptFragments : OccursAt(sf, s, q)}

\* C12: in the combined script a write is handed, every template-injection
\* statement of every component ends before any script fragment of any
\* component starts, after any sequence of rebuilds.
C12_TemplatesPrecedeScripts ==
    last.wrote =>
        LET s == writes[last.id].combined IN
        \A e \in TemplateEnds(s), q \in ScriptStarts(s) : e < q

\* A write, after an earlier one, of a combined script that holds both the
\* template-injection statement and the script fragment of card.html.
C12_Witness ==
    /\ last.wrote
    /\ Len(writes) >= 2
    /\ LET s == writes[last.id].combined
           tf == TemplateFragment("card", FullSource.template.text)
           sf == ScriptPart(variant, "card", FullSource)
       IN  /\ \E p \in 1..Len(s) : OccursAt(tf, s, p)
           /\ \E q \in 1..Len(s) : OccursAt(sf, s, q)

\* The write invocations still waiting on the script minifier.
PendingIds == {pending[j].id : j \in 1..Len(pending)}

C14_ZeroComponentsWriteOneSpace ==
    (last.wrote /\ writes[last.id].fresh = EmptyData) =>
        LET w == writes[last.id] IN
        /\ w.combined = <<" ">>
        /\ fsBroken \/ w.outcome # "rejected"
        /\ ~w.cssChanged

\* ------------------------------------------------- templates of any markup
\* The markups of a template: every text of at most MaxMarkup characters
\* over whitespace and two other characters.
MarkupChars == WS \cup {"<p>", "hi"}
Markups == UNION {[1..n -> MarkupChars] : n \in 0..MaxMarkup}

\* One component, card.html, whose template holds any markup; the plugin as
\* constructed.
TemplateInit ==
    /\ variant \in Variants
    /\ compDir = TRUE
    /\ listing = <<Card>>
    /\ \E m \in Markups :
           content = [f \in Entries |->
                        [template |-> Section(m), script |-> NoSection,
                         style |-> NoSection]]
    /\ unreadable = {}
    /\ fsBroken = FALSE
    /\ srcIndex = TRUE
    /\ dirs = {}
    /\ disk = [d \in AssetDirs |-> [js |-> NoFile, css |-> NoFile]]
    /\ publicIndex = FALSE
    /\ data = EmptyData
    /\ isDev = TRUE
    /\ served = FALSE
    /\ watching = FALSE
    /\ buildOk = FALSE
    /\ pending = <<>>
    /\ nextId = 1
    /\ hooks = 0
    /\ fsops = 0
    /\ scan = [epoch |-> 0, fresh |-> EmptyData, tainted |-> FALSE]
    /\ writes = <<>>
    /\ jsDone = {}
    /\ writeFailed = {}
    /\ logged = {}
    /\ reloaded = {}
    /\ escaped = {}
    /\ last = Step("init", 0, FALSE, FALSE, TRUE, NoFile)

\* The hooks that extract: buildStart, and configureServer with the write it
\* makes.
TemplateNext ==
    \/ buildStart
    \/ configureServer
    \/ \E i \in 1..MaxPending : minifyDone(i)

TemplateSpec == TemplateInit /\ [][TemplateNext]_vars

\* The markup inside the first template-injection statement of t: what
\* stands between its two template-literal delimiters.
Injected(t) ==
    LET open == CHOOSE i \in 1..Len(t) :
                    t[i] = Backtick /\ \A j \in 1..(i - 1) : t[j] # Backtick
        close == CHOOSE i \in (open + 1)..Len(t) :
                    t[i] = Backtick /\ \A j \in (open + 1)..(i - 1) : t[j] # Backtick
    IN  SubSeq(t, open + 1, close - 1)

\* Position i of s holds a whitespace character.
IsWs(s, i) == i \in 1..Len(s) /\ s[i] \in WS
\* Position i of s is in a run of two or more whitespace characters.
InRun(s, i) == IsWs(s, i) /\ (IsWs(s, i - 1) \/ IsWs(s, i + 1))
\* Position i of s is where such a run starts.
RunStart(s, i) == InRun(s, i) /\ ~IsWs(s, i - 1)
\* The positions of s a character of the result stands for: those outside
\* the runs, and the start of each run.
Kept(s) == {i \in 1..Len(s) : ~InRun(s, i) \/ RunStart(s, i)}
Rank(s, i) == Cardinality({k \in Kept(s) : k <= i})

\* C15: the markup extractTags places inside the template-injection
\* statement has no two consecutive whitespace characters: every maximal run
\* of two or more whitespace characters of the source template has become
\* exactly one space, and single whitespace characters and non-whitespace
\* characters are kept unchanged and in order.
C15_WhitespaceRunsCollapsed ==
    data.template # <<>> =>
        LET s == content[Card].template.text
            t == Injected(data.template)
        IN  /\ \A i \in 1..Len(t) : ~InRun(t, i)
            /\ Len(t) = Cardinality(Kept(s))
            /\ \A i \in Kept(s) :
                   t[Rank(s, i)] = IF RunStart(s, i) THEN " " ELSE s[i]

\* The statement extracted from a markup that holds a run of whitespace
\* starting with a newline or a tab, and a single newline or tab.
C15_Witness ==
    /\ data.template # <<>>
    /\ LET s == content[Card].template.text IN
       /\ \E i \in 1..Len(s) : RunStart(s, i) /\ s[i] # " "
       /\ \E i \in 1..Len(s) : IsWs(s, i) /\ ~InRun(s, i) /\ s[i] # " "

\* ------------------------------------------------------- watcher events
\* The path has a directory named components above the file, and the file
\* name ends in .html.
InComponentsHtml(path) ==
    /\ "components" \in {path.segs[i] : i \in 1..Len(path.segs)}
    /\ path.file.ext = "html"

\* Listing the component directory or reading one of its component files
\* throws.
ReadFails ==
    \/ ~compDir
    \/ \E i \in 1..Len(listing) :
          listing[i].ext = "html" /\ listing[i] \in unreadable

\* a is the start of b.
IsPrefix(a, b) == Len(a) <= Len(b) /\ SubSeq(b, 1, Len(a)) = a

\* The event changes neither the accumulator nor an artifact, invokes no
\* write and sends no reload.
NoEffect ==
    /\ data' = data
    /\ disk' = disk
    /\ writes' = writes
    /\ pending' = pending
    /\ reloaded' = reloaded

\* The event resets the accumulator and rescans the directory, invokes one
\* write, of the rescanned accumulator, and sends one reload.
OneRebuild ==
    /\ data' = Fresh
    /\ Len(writes') = Len(writes) + 1
    /\ writes'[Len(writes')].data = Fresh
    /\ Cardinality(reloaded') = Cardinality(reloaded) + 1

\* C16: a watcher 'change' event whose path does not both contain
\* /components/ and end in .html has no effect; every event whose path does
\* triggers exactly one reset-and-rescan of the accumulator, one write
\* invocation and one 'full-reload' message.
C16_ChangeEventsFiltered ==
    [][\A file \in ChangePaths :
          watcherChange(file) =>
              IF InComponentsHtml(file) THEN OneRebuild ELSE NoEffect]_vars

\* C16, amended: as C16, but an event with a matching path whose rescan
\* fails to list the directory or to read a file has reset the accumulator
\* and accumulated the files before the failing one, and invokes no write
\* and sends no reload.
C16_ChangeEventsFilteredUnlessReadFails ==
    [][\A file \in ChangePaths :
          watcherChange(file) =>
              IF ~InComponentsHtml(file) THEN NoEffect
              ELSE IF ~ReadFails THEN OneRebuild
              ELSE /\ \A k \in {"template", "script", "style"} :
                         IsPrefix(data'[k], Fresh[k])
                   /\ disk' = disk
                   /\ writes' = writes
                   /\ pending' = pending
                   /\ reloaded' = reloaded]_vars

\* An event with a matching path has rebuilt, written and sent a reload,
\* and an event for another path has then been ignored.
C16_Witness ==
    /\ last.step = "ignored"
    /\ Len(writes) >= 2
    /\ writes[Len(writes)].hook = "change"
    /\ Len(writes) \in reloaded

\* C17: the script artifact a writeDevFiles call writes is made from the
\* accumulator as it was when the call was invoked, also when a later
\* file-change event has reset and repopulated the accumulator while the
\* call awaited the minifier: never from an empty, partial or later one.
C17_WriteUsesOwnSnapshot ==
    (last.js # NoFile /\ writes[last.id].fn = "writeDevFiles") =>
        LET w == writes[last.id]
            own == w.data.template \o <<" ">> \o w.data.script
        IN  /\ last.js.text = own
            /\ disk[w.dir].js = last.js
            /\ last.step = "minifyDone" => last.js = Terser(own)

\* A writeDevFiles call finishes its minified write after a later
\* file-change event has rebuilt the accumulator from changed files.
C17_Witness ==
    /\ last.step = "minifyDone"
    /\ last.js # NoFile
    /\ writes[last.id].fn = "writeDevFiles"
    /\ Len(writes) > last.id
    /\ writes[last.id + 1].hook = "change"
    /\ data # writes[last.id].data
    /\ data = writes[last.id + 1].data

====
